---- MODULE Spec2Model ----
(***************************************************************************)
(* Model of AutoFocusConnector (autofocus_connector.py): the action        *)
(* dispatcher handle_action, the five hunt/report/connectivity handlers,   *)
(* the search -> tag aggregation -> per-tag enrichment pipeline, and the   *)
(* remote service as the environment that answers, rejects or raises.     *)
(***************************************************************************)
EXTENDS Naturals, Sequences, FiniteSets, TLC

VARIABLES
    pc,               \* position of the current invocation of handle_action
    action,           \* get_action_identifier() of the current invocation
    param,            \* the action parameters (a dictionary)
    api_key,          \* get_config()[AF_JSON_API_KEY]
    afapi,            \* self._afapi: <<>> or <<client>>
    action_results,   \* the ActionResults added with add_action_result
    ret_val,          \* ret_val of handle_action
    connector_status, \* set_status / set_status_save_progress on the connector
    progress,         \* the save_progress messages, in order
    calls,            \* the remote calls issued, in order, with their outcomes
    tag_set,          \* tag_set of _samples_search_tag
    pending,          \* the tags `for tag in tag_set` has not yet visited
    pagesRead,        \* responses yielded so far by samples_search_results
    seenTags,         \* every tag carried by a hit of a page received so far
    taggedHits        \* number of hits received that carry a non-empty tag list

vars == <<pc, action, param, api_key, afapi, action_results, ret_val,
          connector_status, progress, calls, tag_set, pending, pagesRead,
          seenTags, taggedHits>>

----------------------------------------------------------------------------
(* Bounds of the model *)

MaxPages == 2
MaxHits == 2
MaxTagList == 2

----------------------------------------------------------------------------
(* Constants of the program and of its host *)

APP_SUCCESS == TRUE
APP_ERROR == FALSE

is_fail(status) == status = APP_ERROR

ACTION_ID_TEST_ASSET_CONNECTIVITY == "test_asset_connectivity"
ACTION_ID_HUNT_FILE == "hunt_file"
ACTION_ID_HUNT_IP == "hunt_ip"
ACTION_ID_HUNT_DOMAIN == "hunt_domain"
ACTION_ID_HUNT_URL == "hunt_url"
ACTION_ID_GET_REPORT == "get_report"

HuntActions ==
    {ACTION_ID_HUNT_FILE, ACTION_ID_HUNT_IP, ACTION_ID_HUNT_DOMAIN, ACTION_ID_HUNT_URL}

KnownActions ==
    HuntActions \cup {ACTION_ID_TEST_ASSET_CONNECTIVITY, ACTION_ID_GET_REPORT}

\* Identifiers the host may hand to handle_action: the six known ones and
\* two the connector does not know.
ActionIds == KnownActions \cup {"on_poll", "hunt_email"}

AF_JSON_API_KEY == "api_key"
AF_JSON_SCOPE == "scope"
AF_JSON_HASH == "hash"
AF_JSON_IP == "ip"
AF_JSON_DOMAIN == "domain"
AF_JSON_URL == "url"
AF_JSON_TAG == "tag"

\* AF_ERR_INVALID_SCOPE.format(scope): the message carries the value formatted in.
\* A message is the sequence of its pieces of text.
AF_ERR_INVALID_SCOPE(scope) == <<"Invalid scope: ", scope>>

SCOPE_MAP ==
    [s \in {"all samples", "my samples", "public samples"} |->
        CASE s = "all samples" -> "global"
          [] s = "my samples" -> "private"
          [] s = "public samples" -> "public"]

SCOPE_MAP_values == {SCOPE_MAP[k] : k \in DOMAIN SCOPE_MAP}

\* str.lower() on the scope strings of the model.
lower(s) ==
    CASE s = "All Samples" -> "all samples"
      [] s = "My Samples" -> "my samples"
      [] s = "GLOBAL" -> "global"
      [] s = "Bogus" -> "bogus"
      [] OTHER -> s

----------------------------------------------------------------------------
(* Inputs *)

ScopeInputs ==
    {"All Samples", "all samples", "My Samples", "my samples", "public samples",
     "global", "GLOBAL", "private", "public", "bogus", "Bogus"}

Values == {"abc123", "example.com"}

Tags == {"malware.foo", "malware.bar"}

ReportTags == Tags \cup {"no.such.tag"}

HuntHandlers == {"_hunt_file", "_hunt_ip", "_hunt_domain", "_hunt_url"}

\* The value_type each _hunt_* handler passes to _hunt_action ...
ValueType(h) ==
    CASE h = "_hunt_file" -> AF_JSON_HASH
      [] h = "_hunt_ip" -> AF_JSON_IP
      [] h = "_hunt_domain" -> AF_JSON_DOMAIN
      [] h = "_hunt_url" -> AF_JSON_URL

\* ... and the field.
HuntField(h) ==
    CASE h = "_hunt_file" -> "alias.hash"
      [] h = "_hunt_ip" -> "alias.ip_address"
      [] h = "_hunt_domain" -> "alias.domain"
      [] h = "_hunt_url" -> "alias.url"

\* The parameters of a hunt: the value under its key, and an optional scope.
HuntParams(h) ==
    {[k \in {ValueType(h)} |-> v] : v \in Values}
    \cup {[k \in {ValueType(h), AF_JSON_SCOPE} |-> IF k = AF_JSON_SCOPE THEN s ELSE v] :
            v \in Values, s \in ScopeInputs}

ReportParams == {[k \in {AF_JSON_TAG} |-> t] : t \in ReportTags}

NoParams == [k \in {} |-> ""]

\* dict.get(key, default)
get(d, key, default) == IF key \in DOMAIN d THEN d[key] ELSE default

ApiKeys == {"key", ""}

----------------------------------------------------------------------------
(* The remote service: what a call can come back with *)

HttpErrors == {"401 Client Error: Unauthorized", "503 Server Error: Service Unavailable"}

TransportErrors == {"Connection refused"}

OkResponse == [kind |-> "ok", text |-> ""]

\* A response object whose raise_for_status() raises: a non-2xx status.
HttpErrorResponses == {[kind |-> "http_error", text |-> e] : e \in HttpErrors}

\* No response object at all: the client library raises.
Raises == {[kind |-> "raise", text |-> e] : e \in TransportErrors}

CallOutcomes == {OkResponse} \cup HttpErrorResponses \cup Raises

\* str(e)
str(e) == <<e.text>>

\* r.json of a validated tag-detail response for `tag`.
TagJson(tag) ==
    [tag |-> [description |-> <<"description of ", tag>>,
              tag_name |-> tag,
              public_tag_name |-> <<"Unit42.", tag>>,
              count |-> <<"count of ", tag>>,
              tag_definition_scope |-> "public"],
     bucket_info |-> "bucket"]

DailyPoints == {"0", "1000"}

\* r.json['bucket_info'] of a validated export response.
BucketInfos ==
    {[daily_points_remaining |-> r, daily_points |-> "1000"] : r \in DailyPoints}

\* A hit of a search page: i['_source'] with or without a 'tag' list.
RECURSIVE SeqsUpTo(_, _)
SeqsUpTo(S, n) ==
    IF n = 0 THEN {<<>>}
    ELSE LET shorter == SeqsUpTo(S, n - 1)
         IN shorter \cup {Append(q, x) : q \in shorter, x \in S}

Hits ==
    {[has_tag |-> FALSE, tag |-> <<>>]}
    \cup {[has_tag |-> TRUE, tag |-> q] : q \in SeqsUpTo(Tags, MaxTagList)}

\* r.json['hits'] of one response yielded by samples_search_results.
Pages == SeqsUpTo(Hits, MaxHits)

----------------------------------------------------------------------------
(* ActionResult of the host, as the connector uses it *)

ActionResult(p) ==
    [param |-> p, status |-> APP_ERROR, message |-> <<>>, data |-> <<>>, summary |-> {}]

\* set_status stores the pair and returns the status.
set_status(ar, st, msg) == [ar EXCEPT !.status = st, !.message = msg]

add_data(ar, item) == [ar EXCEPT !.data = Append(@, item)]

get_data_size(ar) == Len(ar.data)

update_summary(ar, key, value) ==
    [ar EXCEPT !.summary = {kv \in @ : kv[1] # key} \cup {<<key, value>>}]

----------------------------------------------------------------------------
(* Helpers of the connector *)

\* validate_api_call that never fails.
validate_api_call_always_ok(response) == APP_SUCCESS

\* _validate_api_call: the status it returns ...
validate_api_call(response) ==
    IF response.kind = "ok" THEN APP_SUCCESS ELSE APP_ERROR

\* ... and what it leaves on the action result.
validate_api_call_result(response, ar) ==
    IF response.kind = "ok" THEN ar ELSE set_status(ar, APP_ERROR, str(response))

\* _init_api: PanAFapi(...) raises without an API key; the exception is caught.
init_api(key) ==
    IF key = "" THEN APP_ERROR ELSE APP_SUCCESS

init_api_result(key, ar) ==
    IF key = "" THEN set_status(ar, APP_ERROR, <<"api_key required">>) ELSE ar

init_api_client(key) ==
    IF key = "" THEN <<>> ELSE <<[panrc_tag |-> "autofocus", api_key |-> key]>>

construct_body(value, field, start, size, scope) ==
    [scope |-> scope,
     from |-> start,
     size |-> size,
     sort |-> [create_date |-> [order |-> "desc"]],
     query |-> [operator |-> "all",
                children |-> <<[field |-> field, operator |-> "contains",
                                value |-> value]>>]]

\* resolve_scope with the KeyError branch falling through to the search.
resolve_scope_fallthrough(p) ==
    LET scope == lower(get(p, AF_JSON_SCOPE, "All Samples"))
    IN IF scope \in DOMAIN SCOPE_MAP
       THEN [ok |-> TRUE, scope |-> SCOPE_MAP[scope]]
       ELSE [ok |-> TRUE, scope |-> scope]

\* The scope lookup of _hunt_action: the SCOPE_MAP entry, or the KeyError branch,
\* which returns the error whether or not the value is a canonical one.
resolve_scope(p) ==
    LET scope == lower(get(p, AF_JSON_SCOPE, "All Samples"))
    IN IF scope \in DOMAIN SCOPE_MAP
       THEN [ok |-> TRUE, scope |-> SCOPE_MAP[scope]]
       ELSE IF scope \in SCOPE_MAP_values
       THEN [ok |-> FALSE, scope |-> scope]   \* `pass`, then the same return
       ELSE [ok |-> FALSE, scope |-> scope]

\* add_tags taking the first tag of the list only.
add_tags_first_only(ts, tags) ==
    IF tags = <<>> THEN ts ELSE ts \cup {Head(tags)}

\* for tag in i['_source']['tag']: tag_set.add(tag)
RECURSIVE add_tags(_, _)
add_tags(ts, tags) ==
    IF tags = <<>> THEN ts
    ELSE add_tags(ts \cup {Head(tags)}, Tail(tags))

\* for i in r.json['hits']: if 'tag' in i['_source']: ...
RECURSIVE add_hits(_, _)
add_hits(ts, hits) ==
    IF hits = <<>> THEN ts
    ELSE add_hits(IF Head(hits).has_tag THEN add_tags(ts, Head(hits).tag) ELSE ts,
                  Tail(hits))

\* The projection of a tag-detail payload that the hunt stores.
tag_data(json) ==
    [description |-> json.tag.description,
     tag_name |-> json.tag.tag_name,
     public_tag_name |-> json.tag.public_tag_name,
     count |-> json.tag.count]

\* report_data storing the hunt's projection instead of the payload.
report_data_projected(json) == tag_data(json)

\* What get_report stores: the payload as received.
report_data(json) == json

\* dispatch with a final else that runs _get_report.
dispatch_default_report(a) ==
    CASE a = ACTION_ID_TEST_ASSET_CONNECTIVITY -> "_test_connectivity"
      [] a = ACTION_ID_HUNT_FILE -> "_hunt_file"
      [] a = ACTION_ID_HUNT_IP -> "_hunt_ip"
      [] a = ACTION_ID_HUNT_DOMAIN -> "_hunt_domain"
      [] a = ACTION_ID_HUNT_URL -> "_hunt_url"
      [] OTHER -> "_get_report"

\* The branch handle_action takes for an action identifier.
dispatch(a) ==
    CASE a = ACTION_ID_TEST_ASSET_CONNECTIVITY -> "_test_connectivity"
      [] a = ACTION_ID_HUNT_FILE -> "_hunt_file"
      [] a = ACTION_ID_HUNT_IP -> "_hunt_ip"
      [] a = ACTION_ID_HUNT_DOMAIN -> "_hunt_domain"
      [] a = ACTION_ID_HUNT_URL -> "_hunt_url"
      [] a = ACTION_ID_GET_REPORT -> "_get_report"
      [] OTHER -> "none"

\* A remote call as the service sees it.
Call(op, arg, outcome) == [op |-> op, arg |-> arg, outcome |-> outcome]

----------------------------------------------------------------------------
(* Initial state: a connector that has handled nothing yet *)

Init ==
    /\ pc = "idle"
    /\ action = "none"
    /\ param = NoParams
    /\ api_key = "key"
    /\ afapi = <<>>
    /\ action_results = <<>>
    /\ ret_val = APP_SUCCESS
    /\ connector_status = <<>>
    /\ progress = <<>>
    /\ calls = <<>>
    /\ tag_set = {}
    /\ pending = {}
    /\ pagesRead = 0
    /\ seenTags = {}
    /\ taggedHits = 0

\* What a handler that never reaches the search leaves alone.
NoSearch == UNCHANGED <<tag_set, pending, pagesRead, seenTags, taggedHits>>

----------------------------------------------------------------------------
(* handle_action -> _test_connectivity, start to finish *)

TestConnectivity ==
    /\ pc = "idle"
    /\ \E a \in ActionIds, key \in ApiKeys, resp \in CallOutcomes, info \in BucketInfos :
        LET local == init_api_result(key, ActionResult(NoParams))
            validated == validate_api_call_result(resp, local)
        IN
        /\ dispatch(a) = "_test_connectivity"
        /\ action' = a
        /\ param' = NoParams
        /\ api_key' = key
        /\ afapi' = init_api_client(key)
        /\ action_results' = action_results
        /\ IF is_fail(init_api(key))
           THEN /\ progress' = <<<<"Starting connectivity test">>,
                                 <<"Connectivity test failed">>>>
                /\ connector_status' =
                       <<[status |-> APP_ERROR, message |-> <<"Connectivity test failed">>]>>
                /\ calls' = calls
                /\ ret_val' = APP_ERROR
                /\ pc' = "done"
           ELSE IF resp.kind = "raise"
           THEN \* self._afapi.export() raises outside any try block
                /\ progress' = <<<<"Starting connectivity test">>,
                                 <<"Making a request to PAN AutoFocus">>>>
                /\ connector_status' = connector_status
                /\ calls' = Append(calls, Call("export", "", resp))
                /\ ret_val' = ret_val
                /\ pc' = "crashed"
           ELSE IF is_fail(validate_api_call(resp))
           THEN /\ progress' = <<<<"Starting connectivity test">>,
                                 <<"Making a request to PAN AutoFocus">>,
                                 validated.message,
                                 <<"Test Connectivity failed">>>>
                /\ connector_status' = <<[status |-> APP_ERROR, message |-> <<>>]>>
                /\ calls' = Append(calls, Call("export", "", resp))
                /\ ret_val' = APP_ERROR
                /\ pc' = "done"
           ELSE /\ progress' = <<<<"Starting connectivity test">>,
                                 <<"Making a request to PAN AutoFocus">>,
                                 <<info.daily_points_remaining, "/", info.daily_points,
                                   " daily points remaining">>,
                                 <<"Connectivity test passed">>>>
                /\ connector_status' =
                       <<[status |-> APP_SUCCESS, message |-> <<"Connectivity test passed">>]>>
                /\ calls' = Append(calls, Call("export", "", resp))
                /\ ret_val' = APP_SUCCESS
                /\ pc' = "done"
    /\ NoSearch

----------------------------------------------------------------------------
(* handle_action -> _hunt_file/_hunt_ip/_hunt_domain/_hunt_url -> _hunt_action, *)
(* up to the submission of the search                                          *)

HuntAction ==
    /\ pc = "idle"
    /\ \E a \in ActionIds, key \in ApiKeys, sub \in {OkResponse} \cup Raises :
        /\ dispatch(a) \in HuntHandlers
        /\ \E p \in HuntParams(dispatch(a)) :
            LET h == dispatch(a)
                ar0 == ActionResult(p)
                ar1 == init_api_result(key, ar0)
                rs == resolve_scope(p)
                body == construct_body(p[ValueType(h)], HuntField(h), 0, 4000, rs.scope)
            IN
            /\ action' = a
            /\ param' = p
            /\ api_key' = key
            /\ afapi' = init_api_client(key)
            /\ connector_status' = connector_status
            /\ IF is_fail(init_api(key))
               THEN /\ action_results' = <<ar1>>
                    /\ ret_val' = ar1.status
                    /\ progress' = progress
                    /\ calls' = calls
                    /\ pc' = "done"
               ELSE IF ~rs.ok
               THEN /\ action_results' =
                           <<set_status(ar1, APP_ERROR, AF_ERR_INVALID_SCOPE(rs.scope))>>
                    /\ ret_val' = APP_ERROR
                    /\ progress' = progress
                    /\ calls' = calls
                    /\ pc' = "done"
               ELSE IF sub.kind = "raise"
               THEN \* the first request of samples_search_results raises, inside the try
                    /\ action_results' = <<set_status(ar1, APP_ERROR, str(sub))>>
                    /\ ret_val' = APP_ERROR
                    /\ progress' = Append(progress, <<"Querying AutoFocus">>)
                    /\ calls' = Append(calls, Call("samples_search", body, sub))
                    /\ pc' = "done"
               ELSE /\ action_results' = <<ar1>>
                    /\ ret_val' = ret_val
                    /\ progress' = Append(progress, <<"Querying AutoFocus">>)
                    /\ calls' = Append(calls, Call("samples_search", body, sub))
                    /\ pc' = "querying"
    /\ NoSearch

\* The end of _samples_search_tag and of _hunt_action once the loop over
\* tag_set is over: the summary, then the success status.
finish_hunt(ar) ==
    set_status(update_summary(ar, "total_tags_matched", get_data_size(ar)),
               APP_SUCCESS, <<>>)

\* One more response of samples_search_results: its hits go through the loops.
SearchPage ==
    /\ pc = "querying"
    /\ pagesRead < MaxPages
    /\ \E page \in Pages :
        /\ tag_set' = add_hits(tag_set, page)
        /\ seenTags' = seenTags \cup
               UNION {{page[i].tag[j] : j \in 1..Len(page[i].tag)} : i \in 1..Len(page)}
        /\ taggedHits' = taggedHits +
               Cardinality({i \in 1..Len(page) : page[i].tag # <<>>})
    /\ pagesRead' = pagesRead + 1
    /\ calls' = Append(calls, Call("samples_results", pagesRead + 1, OkResponse))
    /\ UNCHANGED <<pc, action, param, api_key, afapi, action_results, ret_val,
                   connector_status, progress, pending>>

\* SearchError with the exception swallowed: the loop over tag_set runs on the
\* tags collected so far.
SearchError_swallowed ==
    /\ pc = "querying"
    /\ \E e \in Raises :
        calls' = Append(calls, Call("samples_results", pagesRead + 1, e))
    /\ pending' = tag_set
    /\ IF tag_set = {}
       THEN /\ action_results' = <<finish_hunt(action_results[1])>>
            /\ ret_val' = APP_SUCCESS
            /\ pc' = "done"
       ELSE /\ action_results' = action_results
            /\ ret_val' = ret_val
            /\ pc' = "enriching"
    /\ UNCHANGED <<action, param, api_key, afapi, connector_status, progress,
                   tag_set, pagesRead, seenTags, taggedHits>>

\* A request for the next response raises, or the response has no 'hits':
\* the except clause of _samples_search_tag, then _hunt_action returns.
SearchError ==
    /\ pc = "querying"
    /\ \E e \in Raises :
        /\ action_results' = <<set_status(action_results[1], APP_ERROR, str(e))>>
        /\ calls' = Append(calls, Call("samples_results", pagesRead + 1, e))
    /\ ret_val' = action_results'[1].status
    /\ tag_set' = {}
    /\ pc' = "done"
    /\ UNCHANGED <<action, param, api_key, afapi, connector_status, progress,
                   pending, pagesRead, seenTags, taggedHits>>

\* samples_search_results is exhausted: the loop over tag_set starts, and with
\* an empty tag_set it is over at once.
SearchEnd ==
    /\ pc = "querying"
    /\ pending' = tag_set
    /\ IF tag_set = {}
       THEN /\ action_results' = <<finish_hunt(action_results[1])>>
            /\ ret_val' = APP_SUCCESS
            /\ pc' = "done"
       ELSE /\ action_results' = action_results
            /\ ret_val' = ret_val
            /\ pc' = "enriching"
    /\ UNCHANGED <<action, param, api_key, afapi, connector_status, progress,
                   calls, tag_set, pagesRead, seenTags, taggedHits>>

\* One iteration of `for tag in tag_set`, in whatever order the set yields,
\* and after the last one the end of the hunt.
EnrichTag ==
    /\ pc = "enriching"
    /\ \E tag \in pending, resp \in CallOutcomes :
        LET ar == action_results[1]
            validated == validate_api_call_result(resp, ar)
            after == IF is_fail(validate_api_call(resp))
                     THEN validated
                     ELSE add_data(validated, tag_data(TagJson(tag)))
        IN
        /\ calls' = Append(calls, Call("tag", tag, resp))
        /\ pending' = pending \ {tag}
        /\ IF resp.kind = "raise"
           THEN \* self._afapi.tag() raises outside any try block
                /\ action_results' = action_results
                /\ ret_val' = ret_val
                /\ pc' = "crashed"
           ELSE IF pending' = {}
           THEN /\ action_results' = <<finish_hunt(after)>>
                /\ ret_val' = APP_SUCCESS
                /\ pc' = "done"
           ELSE /\ action_results' = <<after>>
                /\ ret_val' = ret_val
                /\ pc' = "enriching"
    /\ UNCHANGED <<action, param, api_key, afapi, connector_status, progress,
                   tag_set, pagesRead, seenTags, taggedHits>>

----------------------------------------------------------------------------
(* handle_action -> _get_report, start to finish *)

GetReport ==
    /\ pc = "idle"
    /\ \E a \in ActionIds, p \in ReportParams, key \in ApiKeys, resp \in CallOutcomes :
        LET ar0 == ActionResult(p)
            ar1 == init_api_result(key, ar0)
            tag == p[AF_JSON_TAG]
            validated == validate_api_call_result(resp, ar1)
        IN
        /\ dispatch(a) = "_get_report"
        /\ action' = a
        /\ param' = p
        /\ api_key' = key
        /\ afapi' = init_api_client(key)
        /\ IF is_fail(init_api(key))
           THEN /\ action_results' = <<ar1>>
                /\ ret_val' = ar1.status
                /\ calls' = calls
                /\ pc' = "done"
           ELSE IF resp.kind = "raise"
           THEN \* self._afapi.tag() raises outside any try block
                /\ action_results' = <<ar1>>
                /\ ret_val' = ret_val
                /\ calls' = Append(calls, Call("tag", tag, resp))
                /\ pc' = "crashed"
           ELSE IF is_fail(validate_api_call(resp))
           THEN /\ action_results' = <<validated>>
                /\ ret_val' = validated.status
                /\ calls' = Append(calls, Call("tag", tag, resp))
                /\ pc' = "done"
           ELSE /\ action_results' =
                       <<set_status(add_data(validated, report_data(TagJson(tag))),
                                    APP_SUCCESS,
                                    <<"Successfully retrieved report info">>)>>
                /\ ret_val' = APP_SUCCESS
                /\ calls' = Append(calls, Call("tag", tag, resp))
                /\ pc' = "done"
    /\ UNCHANGED <<connector_status, progress>>
    /\ NoSearch

----------------------------------------------------------------------------
(* handle_action with an identifier that matches no branch *)

OtherAction ==
    /\ pc = "idle"
    /\ \E a \in ActionIds, key \in ApiKeys :
        /\ dispatch(a) = "none"
        /\ action' = a
        /\ api_key' = key
    /\ param' = NoParams
    /\ ret_val' = APP_SUCCESS
    /\ pc' = "done"
    /\ UNCHANGED <<afapi, action_results, connector_status, progress, calls>>
    /\ NoSearch

----------------------------------------------------------------------------
(* The host takes the result; the next invocation starts from a fresh connector *)

NextInvocation ==
    /\ pc \in {"done", "crashed"}
    /\ pc' = "idle"
    /\ action' = "none"
    /\ param' = NoParams
    /\ api_key' = "key"
    /\ afapi' = <<>>
    /\ action_results' = <<>>
    /\ ret_val' = APP_SUCCESS
    /\ connector_status' = <<>>
    /\ progress' = <<>>
    /\ calls' = <<>>
    /\ tag_set' = {}
    /\ pending' = {}
    /\ pagesRead' = 0
    /\ seenTags' = {}
    /\ taggedHits' = 0

Next ==
    \/ TestConnectivity
    \/ HuntAction
    \/ SearchPage
    \/ SearchError
    \/ SearchEnd
    \/ EnrichTag
    \/ GetReport
    \/ OtherAction
    \/ NextInvocation

Spec == Init /\ [][Next]_vars

----------------------------------------------------------------------------
(* Vocabulary of the properties *)

IsHunt == action \in HuntActions

IsReport == action = ACTION_ID_GET_REPORT

IsConnectivity == action = ACTION_ID_TEST_ASSET_CONNECTIVITY

\* The invocation is over: handle_action returned, or an exception left it.
Over == pc \in {"done", "crashed"}

\* _init_api built the client.
InitOk == afapi # <<>>

Failed(c) == c.outcome.kind # "ok"

TagCalls == SelectSeq(calls, LAMBDA c : c.op = "tag")

SearchCalls == SelectSeq(calls, LAMBDA c : c.op \in {"samples_search", "samples_results"})

SearchFailed == \E i \in 1..Len(SearchCalls) : Failed(SearchCalls[i])

\* The search was submitted and every response of it was consumed without error.
SearchDone ==
    /\ IsHunt
    /\ pc \in {"enriching", "done", "crashed"}
    /\ SearchCalls # <<>>
    /\ ~SearchFailed

ScopeGiven == AF_JSON_SCOPE \in DOMAIN param

\* The fixed vocabulary of scope values and the scope each one stands for.
Vocabulary ==
    [s \in {"all samples", "my samples", "public samples", "global", "private", "public"} |->
        CASE s \in {"all samples", "global"} -> "global"
          [] s \in {"my samples", "private"} -> "private"
          [] s \in {"public samples", "public"} -> "public"]

Names(message, value) == \E i \in 1..Len(message) : message[i] = value

FailedTagCalls == Cardinality({i \in 1..Len(TagCalls) : Failed(TagCalls[i])})

----------------------------------------------------------------------------
(* Properties *)

\* C1: a hunt whose client was built and whose scope parameter is one of the six
\* values of the vocabulary, the canonical global/private/public included, passes
\* scope validation and submits a search whose scope is the canonical value the
\* parameter stands for.
C1_VocabularyScopeAccepted ==
    (IsHunt /\ InitOk /\ ScopeGiven /\ param[AF_JSON_SCOPE] \in DOMAIN Vocabulary)
    => \E i \in 1..Len(calls) :
        /\ calls[i].op = "samples_search"
        /\ calls[i].arg.scope = Vocabulary[param[AF_JSON_SCOPE]]

\* C2 as stated: a hunt with a scope outside the vocabulary ends in failure with
\* no remote call and no data, and the failure message names the scope value.
C2_UnknownScopeMessageNamesScope ==
    (IsHunt /\ ScopeGiven /\ lower(param[AF_JSON_SCOPE]) \notin DOMAIN Vocabulary)
    => /\ pc = "done"
       /\ ret_val = APP_ERROR
       /\ action_results[1].status = APP_ERROR
       /\ calls = <<>>
       /\ action_results[1].data = <<>>
       /\ Names(action_results[1].message, lower(param[AF_JSON_SCOPE]))

\* C2 amended: a hunt with a scope whose lower-cased form is outside the vocabulary
\* ends in failure with no remote call and no data; the message names the
\* lower-cased scope value when the client was built, and is the initialization
\* error when it was not.
C2_UnknownScopeRejected ==
    (IsHunt /\ ScopeGiven /\ lower(param[AF_JSON_SCOPE]) \notin DOMAIN Vocabulary)
    => /\ pc = "done"
       /\ ret_val = APP_ERROR
       /\ action_results[1].status = APP_ERROR
       /\ calls = <<>>
       /\ action_results[1].data = <<>>
       /\ action_results[1].summary = {}
       /\ InitOk => Names(action_results[1].message, lower(param[AF_JSON_SCOPE]))
       /\ ~InitOk => ~Names(action_results[1].message, lower(param[AF_JSON_SCOPE]))

C2_Witness ==
    /\ IsHunt
    /\ pc = "done"
    /\ InitOk
    /\ ScopeGiven
    /\ param[AF_JSON_SCOPE] = "Bogus"
    /\ action_results[1].message = <<"Invalid scope: ", "bogus">>

C4_EnrichmentResilient ==
    (SearchDone /\ Over)
    => /\ Len(TagCalls) = Cardinality(tag_set)
       /\ Len(action_results[1].data) + FailedTagCalls = Cardinality(tag_set)
       /\ action_results[1].summary =
              {<<"total_tags_matched", Len(action_results[1].data)>>}
       /\ \A i \in 1..Len(TagCalls) :
              Failed(TagCalls[i]) <=>
                  ~\E j \in 1..Len(action_results[1].data) :
                      action_results[1].data[j].tag_name = TagCalls[i].arg

\* C5: a hunt whose search submission or any response retrieval raised ends in
\* failure carrying the text of that error; the tags collected so far are
\* dropped, no detail request is issued, no record is added and no summary is
\* recorded.
C5_SearchErrorAbortsHunt ==
    (IsHunt /\ SearchFailed)
    => /\ pc = "done"
       /\ ret_val = APP_ERROR
       /\ action_results[1].status = APP_ERROR
       /\ action_results[1].message = <<SearchCalls[Len(SearchCalls)].outcome.text>>
       /\ \A i \in 1..(Len(SearchCalls) - 1) : ~Failed(SearchCalls[i])
       /\ TagCalls = <<>>
       /\ tag_set = {}
       /\ pending = {}
       /\ action_results[1].data = <<>>
       /\ action_results[1].summary = {}

C5_Witness ==
    /\ IsHunt
    /\ SearchFailed
    /\ pagesRead = 2
    /\ seenTags = {"malware.foo", "malware.bar"}
    /\ pc = "done"

\* C6: no failure leaves the handler as an unhandled exception, and an
\* invocation in which a call other than a hunt's detail lookup failed, or the
\* client could not be built, returns the failure status.
C6_NoFailureEscapes ==
    /\ pc # "crashed"
    /\ (pc = "done" /\ action \in KnownActions /\ ~InitOk) => ret_val = APP_ERROR
    /\ (pc = "done" /\ \E i \in 1..Len(calls) :
            Failed(calls[i]) /\ ~(IsHunt /\ calls[i].op = "tag"))
       => ret_val = APP_ERROR

\* C7: the connectivity test returns and reports success only if the client was
\* built and the export response validated; with a non-2xx export response it
\* returns and reports failure, the error text being a progress message that
\* precedes the last one.
C7_ConnectivitySuccessOnlyIfValidated ==
    (IsConnectivity /\ pc = "done")
    => /\ connector_status # <<>>
       /\ connector_status[1].status = ret_val
       /\ ret_val = APP_SUCCESS =>
            /\ InitOk
            /\ Len(calls) = 1
            /\ calls[1].op = "export"
            /\ calls[1].outcome.kind = "ok"
       /\ \A i \in 1..Len(calls) :
            calls[i].outcome.kind = "http_error" =>
                /\ ret_val = APP_ERROR
                /\ \E j \in 1..(Len(progress) - 1) :
                        progress[j] = <<calls[i].outcome.text>>

C7_Witness ==
    /\ IsConnectivity
    /\ pc = "done"
    /\ calls # <<>>
    /\ calls[1].outcome.kind = "http_error"
    /\ ret_val = APP_ERROR

\* C8 as stated: every get_report invocation issues exactly one detail request,
\* for the tag supplied, and no search; a validated response gives one record,
\* the payload as received, and success; otherwise no record and failure.
C8_ReportAlwaysOneRequest ==
    (IsReport /\ Over)
    => /\ Len(calls) = 1
       /\ calls[1].op = "tag"
       /\ calls[1].arg = param[AF_JSON_TAG]
       /\ calls[1].outcome.kind = "ok" =>
            /\ action_results[1].data = <<TagJson(param[AF_JSON_TAG])>>
            /\ action_results[1].status = APP_SUCCESS
       /\ calls[1].outcome.kind = "http_error" =>
            /\ action_results[1].data = <<>>
            /\ action_results[1].status = APP_ERROR

\* C8 amended: a get_report invocation whose client was built issues exactly one
\* detail request, for the tag supplied, and no search; a validated response
\* gives exactly one record, the payload as received, and success; a non-2xx
\* response gives no record and failure.  When the client could not be built no
\* request is issued at all, and the result is a failure with no record.
C8_ReportOneRequestOnceInitialized ==
    (IsReport /\ Over)
    => /\ InitOk =>
            /\ Len(calls) = 1
            /\ calls[1].op = "tag"
            /\ calls[1].arg = param[AF_JSON_TAG]
            /\ calls[1].outcome.kind = "ok" =>
                /\ pc = "done"
                /\ action_results[1].data = <<TagJson(param[AF_JSON_TAG])>>
                /\ action_results[1].status = APP_SUCCESS
                /\ ret_val = APP_SUCCESS
            /\ calls[1].outcome.kind = "http_error" =>
                /\ pc = "done"
                /\ action_results[1].data = <<>>
                /\ action_results[1].status = APP_ERROR
                /\ action_results[1].message = <<calls[1].outcome.text>>
                /\ ret_val = APP_ERROR
       /\ ~InitOk =>
            /\ pc = "done"
            /\ calls = <<>>
            /\ action_results[1].data = <<>>
            /\ action_results[1].status = APP_ERROR
            /\ ret_val = APP_ERROR

C8_Witness ==
    /\ IsReport
    /\ pc = "done"
    /\ param[AF_JSON_TAG] = "malware.bar"
    /\ Len(calls) = 1
    /\ calls[1].arg = "malware.bar"
    /\ action_results[1].status = APP_SUCCESS
    /\ Len(action_results[1].data) = 1
    /\ action_results[1].data[1].tag.tag_definition_scope = "public"

\* C9: an action identifier that is none of the six known ones runs no handler:
\* no client, no remote call, no action result, no progress, no status, and
\* handle_action returns the default success.
C9_UnknownActionIsNoOp ==
    (action \notin KnownActions /\ pc # "idle")
    => /\ pc = "done"
       /\ ret_val = APP_SUCCESS
       /\ afapi = <<>>
       /\ calls = <<>>
       /\ action_results = <<>>
       /\ connector_status = <<>>
       /\ progress = <<>>

C9_Witness ==
    /\ action = "on_poll"
    /\ pc = "done"
    /\ ret_val = APP_SUCCESS

\* C10: a hunt whose search succeeded ends by returning success with a success
\* status on its result, whatever detail lookups failed, and no search response
\* is retrieved after the first detail request.
C10_HuntEndsInSuccess ==
    /\ (SearchDone /\ Over)
       => /\ pc = "done"
          /\ ret_val = APP_SUCCESS
          /\ action_results[1].status = APP_SUCCESS
    /\ IsHunt =>
        \A i, j \in 1..Len(calls) :
            (calls[i].op = "tag" /\ calls[j].op # "tag") => j < i

====
